---- MODULE Spec2Model ----
(***************************************************************************)
(* StaticRefCell<T> of src/src/lib.rs: a critical_section::Mutex around a  *)
(* RefCell<Option<T>>, placed in a static and used from a main loop and    *)
(* from interrupt service routines of a single-core MCU.                   *)
(*                                                                         *)
(* T is modelled as a small integer (the `data: i32` of the doc tests).    *)
(* The machine is one hardware thread: a single call stack on which an     *)
(* interrupt handler's frames sit above the frames of the code that it     *)
(* preempted, and only the top frame runs.                                 *)
(***************************************************************************)
EXTENDS Integers, Sequences, FiniteSets, TLC

\* Largest value of T that init is called with and that "incr" may reach.
MaxVal == 2
\* Deepest nesting of calls on the cell (a call made by a running accessor).
MaxDepth == 2

\* `value.data = 2` of tests::it_works.
SetVal == 2

Values == 0..MaxVal

\* Option<T>
None == <<>>
Some(v) == <<v>>

\* The unit value `()` and an integer result, as results of type F.
Unit == <<>>
Ret(n) == <<n>>

\* The caller-supplied `func` pointers. identity: |value| value.data;
\* incr: |value| value.data += 1; set: |value| value.data = 2.
BorrowFuncs == {"identity"}
BorrowMutFuncs == {"identity", "incr", "set"}

\* The caller-supplied `none_func` pointers: || -1, || 0, || {}, || panic!().
IntNoneFuncs == {"minus_one", "zero", "panic"}
UnitNoneFuncs == {"noop", "panic"}

\* none_func must return the F that func returns.
NoneFuncsFor(f) == IF f = "identity" THEN IntNoneFuncs ELSE UnitNoneFuncs

\* What func returns when handed a reference to v.
FuncResult(f, v) == IF f = "identity" THEN Ret(v) ELSE Unit

\* What func leaves in *value when handed a mutable reference to v.
FuncStore(f, v) ==
    CASE f = "incr" -> v + 1
      [] f = "set" -> SetVal
      [] OTHER -> v

\* What none_func returns (for the ones that return).
NoneResult(nf) ==
    CASE nf = "minus_one" -> Ret(0 - 1)
      [] nf = "zero" -> Ret(0)
      [] OTHER -> Unit

VARIABLES
    value,      \* the Option<T> inside the RefCell
    flag,       \* the RefCell's borrow flag: 0 unused, n > 0 shared, -1 exclusive
    stack,      \* the call stack of calls on the cell, top last
    ie,         \* the global interrupt enable bit
    aborted,    \* "no", "cell" (a RefCell borrow panic), "caller" (none_func panicked)
    initCalled, \* history: init has been called
    lastWrite,  \* history: the last completed call that wrote the cell
    prevWrite,  \* history: the completed writing call before lastWrite
    seqValue    \* history: the cell of the sequential execution of the completed calls

vars == <<value, flag, stack, ie, aborted, initCalled, lastWrite, prevWrite, seqValue>>

NoWrite == [op |-> "none", func |-> "-", v |-> 0, ctx |-> "-"]

\* new, were it to start the cell with a default value.
new_default == Some(0)

\* StaticRefCell::new: Mutex::new(RefCell::new(None))
new == None

\* The borrow, were the cell an UnsafeCell that grants every borrow.
can_borrow_unchecked(op, b) == TRUE

\* RefCell::borrow / borrow_mut: whether the borrow is granted under flag b.
can_borrow(op, b) == IF op = "borrow" THEN b >= 0 ELSE b = 0

\* The borrow flag once the Ref / RefMut guard exists.
borrow_ref(op, b) == IF op = "borrow" THEN b + 1 ELSE 0 - 1

\* The guard, were it leaked instead of dropped.
drop_ref_leak(op, b) == b

\* The borrow flag once the Ref / RefMut guard is dropped.
drop_ref(op, b) == IF op = "borrow" THEN b - 1 ELSE 0

\* init, were it to assign to a copy of the Option.
init_store_copy(opt, v) == opt

\* init, were it to fill the cell only when it is empty (get_or_insert).
init_store_once(opt, v) == IF opt = None THEN Some(v) ELSE opt

\* init: *guard = Some(value)
init_store(opt, v) == Some(v)

\* The match, were it on the truthiness of the value instead of its presence.
match_arm_falsy(opt) == IF opt = None \/ opt = Some(0) THEN "none_func" ELSE "func"

\* The arm of `match ... { Some(value) => func(value), None => none_func() }`.
match_arm(opt) == IF opt = None THEN "none_func" ELSE "func"

\* borrow_mut, were func handed a reference to a copy of the value.
after_arm_copy(op, arm, f, opt) == opt

\* borrow_mut, were the None arm to fill the cell with a default (get_or_insert).
after_arm_insert(op, arm, f, opt) ==
    CASE arm = "none_func" /\ op = "borrow_mut" -> Some(0)
      [] arm = "func" /\ op = "borrow_mut" -> Some(FuncStore(f, opt[1]))
      [] OTHER -> opt

\* borrow_mut, were the value taken out of the cell for func and not put back.
after_arm_take(op, arm, f, opt) ==
    IF arm = "func" /\ op = "borrow_mut" THEN None ELSE opt

\* borrow, were the value taken out of the cell for func and not put back.
after_arm_borrow_take(op, arm, f, opt) ==
    CASE arm = "func" /\ op = "borrow_mut" -> Some(FuncStore(f, opt[1]))
      [] arm = "func" /\ op = "borrow" -> None
      [] OTHER -> opt

\* The Option<T> the arm leaves in the cell: borrow hands out &T, borrow_mut
\* hands out &mut T into the cell, and the None arm touches nothing.
after_arm(op, arm, f, opt) ==
    IF arm = "func" /\ op = "borrow_mut" THEN Some(FuncStore(f, opt[1])) ELSE opt

\* The call, were it made outside a critical section.
with_cs_absent(i) == i

\* critical_section::with: the interrupt enable bit inside the closure.
with_cs(i) == FALSE

Top == stack[Len(stack)]
Running == aborted = "no" /\ stack # <<>>
Idle == aborted = "no" /\ stack = <<>>

\* The calls a caller can make: op, func, none_func, and init's value.
Calls ==
    [op : {"init"}, func : {"-"}, none_func : {"-"}, arg : Values]
    \cup { [op |-> "borrow", func |-> f, none_func |-> nf, arg |-> 0] :
             f \in BorrowFuncs, nf \in IntNoneFuncs }
    \cup UNION { { [op |-> "borrow_mut", func |-> f, none_func |-> nf, arg |-> 0] :
                     nf \in NoneFuncsFor(f) } : f \in BorrowMutFuncs }

\* "incr" is only handed a value it can increment within Values.
InRange(c) == c.func = "incr" /\ value # None => value[1] < MaxVal

Frame(c, ctx, saved) ==
    [ctx |-> ctx, op |-> c.op, func |-> c.func, none_func |-> c.none_func,
     arg |-> c.arg, pc |-> "acquire", before |-> value,
     nfunc |-> 0, nnone |-> 0, res |-> Unit, saved |-> saved]

Init ==
    /\ value = new
    /\ flag = 0
    /\ stack = <<>>
    /\ ie = FALSE
    /\ aborted = "no"
    /\ initCalled = FALSE
    /\ lastWrite = NoWrite
    /\ prevWrite = NoWrite
    /\ seqValue = None

\* The RefCell borrow an operation takes: borrow_ref for borrow, borrow_ref_mut
\* for init and borrow_mut.
RefKind(op) == IF op = "borrow" THEN "borrow" ELSE "borrow_mut"

CtxDepth(ctx) == Cardinality({i \in DOMAIN stack : stack[i].ctx = ctx})

SetTop(f) == [stack EXCEPT ![Len(stack)] = f]

\* The sequential meaning of a call on a cell s: the cell it leaves ...
SeqAfter(c, s) ==
    CASE c.op = "init" -> Some(c.arg)
      [] c.op = "borrow_mut" /\ s # None -> Some(FuncStore(c.func, s[1]))
      [] OTHER -> s

\* ... and the result it returns (for the calls that return).
SeqResult(c, s) ==
    CASE c.op = "init" -> Unit
      [] s # None -> FuncResult(c.func, s[1])
      [] OTHER -> NoneResult(c.none_func)

\* main: critical_section::with(|cs| MY_DATA.<op>(cs, ...)) from the main program.
MainCall(c) ==
    /\ Idle
    /\ InRange(c)
    /\ stack' = <<Frame(c, "main", ie)>>
    /\ ie' = with_cs(ie)
    /\ initCalled' = (initCalled \/ c.op = "init")
    /\ UNCHANGED <<value, flag, aborted, lastWrite, prevWrite, seqValue>>

\* main: avr_device::interrupt::enable()
Enable ==
    /\ Idle
    /\ ~ie
    /\ ie' = TRUE
    /\ UNCHANGED <<value, flag, stack, aborted, initCalled, lastWrite, prevWrite, seqValue>>

\* The interrupt fires: the hardware clears the enable bit and runs the handler,
\* whose body is one critical_section::with(|cs| MY_DATA.<op>(cs, ...)).
Interrupt(c) ==
    /\ aborted = "no"
    /\ ie
    /\ CtxDepth("isr") = 0
    /\ InRange(c)
    /\ stack' = Append(stack, Frame(c, "isr", TRUE))
    /\ ie' = FALSE
    /\ initCalled' = (initCalled \/ c.op = "init")
    /\ UNCHANGED <<value, flag, aborted, lastWrite, prevWrite, seqValue>>

\* A running func or none_func calls back into the cell.
Reenter(c) ==
    /\ Running
    /\ Top.pc \in {"func", "none_func"}
    /\ CtxDepth(Top.ctx) < MaxDepth
    /\ InRange(c)
    /\ stack' = Append(stack, Frame(c, Top.ctx, ie))
    /\ ie' = with_cs(ie)
    /\ initCalled' = (initCalled \/ c.op = "init")
    /\ UNCHANGED <<value, flag, aborted, lastWrite, prevWrite, seqValue>>

\* self.0.borrow_ref(cs) / self.0.borrow_ref_mut(cs): the borrow is granted.
Acquire ==
    /\ Running
    /\ Top.pc = "acquire"
    /\ can_borrow(RefKind(Top.op), flag)
    /\ flag' = borrow_ref(RefKind(Top.op), flag)
    /\ stack' = SetTop([Top EXCEPT !.pc = IF Top.op = "init" THEN "write" ELSE "match"])
    /\ UNCHANGED <<value, ie, aborted, initCalled, lastWrite, prevWrite, seqValue>>

\* The borrow, were it a lock that waits for the outer call's guard.
AcquireWait ==
    /\ Running
    /\ Top.pc = "acquire"
    /\ ~can_borrow(RefKind(Top.op), flag)
    /\ UNCHANGED vars

\* self.0.borrow_ref(cs) / self.0.borrow_ref_mut(cs): RefCell panics
\* ("already borrowed" / "already mutably borrowed").
AcquirePanic ==
    /\ Running
    /\ Top.pc = "acquire"
    /\ ~can_borrow(RefKind(Top.op), flag)
    /\ aborted' = "cell"
    /\ UNCHANGED <<value, flag, stack, ie, initCalled, lastWrite, prevWrite, seqValue>>

\* init: *guard = Some(value)
Write ==
    /\ Running
    /\ Top.pc = "write"
    /\ value' = init_store(value, Top.arg)
    /\ stack' = SetTop([Top EXCEPT !.pc = "return"])
    /\ UNCHANGED <<flag, ie, aborted, initCalled, lastWrite, prevWrite, seqValue>>

\* borrow / borrow_mut: the match picks its arm and invokes func or none_func.
Match ==
    /\ Running
    /\ Top.pc = "match"
    /\ LET arm == match_arm(value) IN
         stack' = SetTop([Top EXCEPT !.pc = arm,
                                     !.nfunc = @ + (IF arm = "func" THEN 1 ELSE 0),
                                     !.nnone = @ + (IF arm = "none_func" THEN 1 ELSE 0)])
    /\ UNCHANGED <<value, flag, ie, aborted, initCalled, lastWrite, prevWrite, seqValue>>

\* func(value) runs to its end.
RunFunc ==
    /\ Running
    /\ Top.pc = "func"
    /\ value' = after_arm(Top.op, "func", Top.func, value)
    /\ stack' = SetTop([Top EXCEPT !.pc = "return", !.res = FuncResult(Top.func, value[1])])
    /\ UNCHANGED <<flag, ie, aborted, initCalled, lastWrite, prevWrite, seqValue>>

\* none_func() runs to its end.
RunNoneFunc ==
    /\ Running
    /\ Top.pc = "none_func"
    /\ Top.none_func # "panic"
    /\ value' = after_arm(Top.op, "none_func", Top.func, value)
    /\ stack' = SetTop([Top EXCEPT !.pc = "return", !.res = NoneResult(Top.none_func)])
    /\ UNCHANGED <<flag, ie, aborted, initCalled, lastWrite, prevWrite, seqValue>>

\* none_func is || panic!().
NonePanic ==
    /\ Running
    /\ Top.pc = "none_func"
    /\ Top.none_func = "panic"
    /\ aborted' = "caller"
    /\ UNCHANGED <<value, flag, stack, ie, initCalled, lastWrite, prevWrite, seqValue>>

\* A write by the completed call f, for the history: init with the value it
\* stored, borrow_mut with the value the cell held when it was called.
WriteOf(f) ==
    CASE f.op = "init" -> [op |-> "init", func |-> "-", v |-> f.arg, ctx |-> f.ctx]
      [] f.op = "borrow_mut" /\ f.nfunc > 0 ->
            [op |-> "borrow_mut", func |-> f.func,
             v |-> IF f.before = None THEN 0 ELSE f.before[1], ctx |-> f.ctx]
      [] OTHER -> NoWrite

\* The write before the last one: the history keeps its operation and, of an
\* init, the value, of a borrow_mut, the accessor.
Older(w) ==
    IF w.op = "borrow_mut" THEN [w EXCEPT !.v = 0, !.ctx = "-"] ELSE [w EXCEPT !.ctx = "-"]

\* The end of the operation's body: the Ref / RefMut guard is dropped.
Return ==
    /\ Running
    /\ Top.pc = "return"
    /\ flag' = drop_ref(RefKind(Top.op), flag)
    /\ stack' = SetTop([Top EXCEPT !.pc = "done"])
    /\ IF WriteOf(Top) # NoWrite
         THEN lastWrite' = WriteOf(Top) /\ prevWrite' = Older(lastWrite)
         ELSE UNCHANGED <<lastWrite, prevWrite>>
    /\ seqValue' = IF Len(stack) = 1 THEN SeqAfter(Top, seqValue) ELSE seqValue
    /\ UNCHANGED <<value, ie, aborted, initCalled>>

\* The call returns to its caller: critical_section::with restores the
\* interrupt enable bit (a handler's return re-enables interrupts).
Pop ==
    /\ Running
    /\ Top.pc = "done"
    /\ stack' = SubSeq(stack, 1, Len(stack) - 1)
    /\ ie' = Top.saved
    /\ UNCHANGED <<value, flag, aborted, initCalled, lastWrite, prevWrite, seqValue>>

Next ==
    \/ \E c \in Calls : MainCall(c)
    \/ Enable
    \/ \E c \in Calls : Interrupt(c)
    \/ \E c \in Calls : Reenter(c)
    \/ Acquire
    \/ AcquirePanic
    \/ Write
    \/ Match
    \/ RunFunc
    \/ RunNoneFunc
    \/ NonePanic
    \/ Return
    \/ Pop

\* A step of the call being executed (the processor runs the top frame).
StepTop ==
    \/ Acquire
    \/ AcquirePanic
    \/ Write
    \/ Match
    \/ RunFunc
    \/ RunNoneFunc
    \/ NonePanic
    \/ Return
    \/ Pop

Spec == Init /\ [][Next]_vars

\* main, were it to enable interrupts without having initialized the cell.
EnableAnyTime == Enable

\* main of the module documentation: interrupts are enabled only after
\* MY_DATA.init has returned. (The first completed write of a cell is an init.)
EnableAfterInit ==
    /\ lastWrite # NoWrite
    /\ Enable

NextInitFirst ==
    \/ \E c \in Calls : MainCall(c)
    \/ EnableAfterInit
    \/ \E c \in Calls : Interrupt(c)
    \/ \E c \in Calls : Reenter(c)
    \/ StepTop

\* The program that follows the init-before-enable pattern.
SpecInitFirst == Init /\ [][NextInitFirst]_vars

\* The func or none_func of the call at depth d of the stack comes to its end.
FuncEnds(d) ==
    /\ Len(stack) = d
    /\ (RunFunc \/ RunNoneFunc \/ NonePanic)

\* The single hardware thread keeps executing the call in progress, and each
\* caller-supplied func and none_func comes to its end (it does not call back
\* into the cell for ever).
FairSpec ==
    /\ Spec
    /\ WF_vars(StepTop)
    /\ \A d \in 1..MaxDepth : SF_vars(FuncEnds(d))

TypeOK ==
    /\ value \in {None} \cup {Some(v) : v \in Values}
    /\ flag \in (0 - 1)..MaxDepth
    /\ ie \in BOOLEAN
    /\ aborted \in {"no", "cell", "caller"}

----------------------------------------------------------------------------
\* A call that has run to its end and is about to return to its caller.
IsDone(f) == f.pc = "done"
TopDone == stack # <<>> /\ IsDone(Top)
ReadDone == TopDone /\ Top.op = "borrow" /\ Top.func = "identity"

\* C1: initialize-then-read. When the last completed write of the cell is
\* init(v), on an empty or an initialized cell, a borrow with the identity
\* accessor runs func and returns v, whatever its fallback.
C1_InitThenRead ==
    ReadDone /\ lastWrite.op = "init" =>
        Top.res = Ret(lastWrite.v) /\ Top.nfunc = 1 /\ Top.nnone = 0

C1_Witness ==
    /\ ReadDone
    /\ lastWrite.op = "init" /\ lastWrite.v = 1
    /\ Top.none_func = "minus_one"
    /\ Top.res = Ret(1)

\* C2: initial emptiness. As long as init has not been called, a borrow never
\* runs func: it runs none_func and returns none_func's result.
C2_InitialEmptiness ==
    \A i \in DOMAIN stack :
        stack[i].op = "borrow" /\ ~initCalled =>
            /\ stack[i].nfunc = 0
            /\ stack[i].pc # "func"
            /\ stack[i].pc \in {"return", "done"} =>
                  stack[i].nnone = 1 /\ stack[i].res = NoneResult(stack[i].none_func)

C2_Witness ==
    /\ TopDone /\ Top.op = "borrow"
    /\ ~initCalled
    /\ Top.res = Ret(0 - 1)

\* C3: mutation visibility. After init(v) and then a borrow_mut whose func
\* ran, a borrow with the identity accessor returns what func stored for v
\* (v + 1 for incr, SetVal for set), not v.
C3_MutationVisible ==
    ReadDone /\ lastWrite.op = "borrow_mut" /\ prevWrite.op = "init" =>
        Top.res = Ret(FuncStore(lastWrite.func, prevWrite.v))

C3_Witness ==
    /\ ReadDone
    /\ lastWrite.op = "borrow_mut" /\ lastWrite.func = "incr"
    /\ prevWrite.op = "init" /\ prevWrite.v = 1
    /\ Top.res = Ret(2)

\* C4: reinitialization overwrite. After init(v1) and then init(v2), a borrow
\* with the identity accessor returns v2; and an init of an initialized cell
\* returns unit without aborting, leaving its own value in the cell.
C4_ReinitOverwrites ==
    /\ ReadDone /\ lastWrite.op = "init" /\ prevWrite.op = "init" =>
          Top.res = Ret(lastWrite.v)
    /\ TopDone /\ Top.op = "init" /\ Top.before # None =>
          Top.res = Unit /\ value = Some(Top.arg) /\ aborted = "no"

C4_Witness ==
    /\ ReadDone
    /\ prevWrite.op = "init" /\ prevWrite.v = 1
    /\ lastWrite.op = "init" /\ lastWrite.v = 2
    /\ Top.res = Ret(2)

\* C5: in every borrow and borrow_mut exactly one of func and none_func is
\* invoked, once: func if and only if the cell held a value when the call was
\* made, whatever that value is.
C5_ExactlyOneArm ==
    \A i \in DOMAIN stack :
        stack[i].op # "init" =>
            /\ stack[i].nfunc + stack[i].nnone <= 1
            /\ stack[i].pc \notin {"acquire", "match"} =>
                  /\ stack[i].nfunc + stack[i].nnone = 1
                  /\ stack[i].nfunc = 1 <=> stack[i].before # None

C5_Witness ==
    /\ TopDone /\ Top.op = "borrow"
    /\ Top.before = Some(0) /\ Top.none_func = "zero"
    /\ Top.nfunc = 1 /\ Top.res = NoneResult("zero")

\* C6: borrow_mut on an empty cell returns none_func's result, does not
\* invoke func, and leaves the cell empty.
C6_BorrowMutEmpty ==
    TopDone /\ Top.op = "borrow_mut" /\ Top.before = None =>
        /\ Top.res = NoneResult(Top.none_func)
        /\ Top.nfunc = 0
        /\ value = None

C6_Witness ==
    /\ TopDone /\ Top.op = "borrow_mut" /\ Top.before = None
    /\ Top.func = "incr" /\ Top.none_func = "noop"

\* C7: the cell starts empty, only init's assignment makes it initialized,
\* and no step makes an initialized cell empty.
C7_OneWay ==
    /\ value = None
    /\ [][/\ value # None => value' # None
          /\ value = None /\ value' # None =>
                stack # <<>> /\ Top.op = "init" /\ Top.pc = "write"]_vars

C7_Witness ==
    /\ Idle
    /\ value # None
    /\ lastWrite.op = "borrow_mut" /\ prevWrite.op = "init"

\* C8: borrow does not change the cell: when it returns, on either arm, the
\* cell holds what it held when the call was made.
C8_BorrowFrame ==
    \A i \in DOMAIN stack :
        stack[i].op = "borrow" /\ stack[i].pc \in {"return", "done"} =>
            value = stack[i].before

C8_Witness ==
    /\ TopDone /\ Top.op = "borrow"
    /\ Top.nfunc = 1
    /\ value = Some(1)

\* C9 as stated: no call is ever aborted by the cell itself.
C9_NeverAbortsItself == aborted # "cell"

\* C9 as amended: a call that is not nested in another call on the cell is
\* always granted its borrow; the cell aborts a call only when the call is made
\* by the running func or none_func of another call and one of the two
\* borrows the cell exclusively (init, borrow_mut).
C9_AbortsOnlyNested ==
    /\ Len(stack) = 1 /\ Top.pc = "acquire" => can_borrow(RefKind(Top.op), flag)
    /\ aborted = "cell" =>
          /\ Len(stack) >= 2
          /\ Top.pc = "acquire"
          /\ stack[Len(stack) - 1].pc \in {"func", "none_func"}
          /\ \/ RefKind(Top.op) = "borrow_mut"
             \/ RefKind(stack[Len(stack) - 1].op) = "borrow_mut"

C9_Witness ==
    /\ Len(stack) = 1 /\ Top.pc = "acquire"
    /\ lastWrite # NoWrite /\ prevWrite # NoWrite
    /\ flag = 0

\* C10: mutual exclusion and total order. The calls in progress belong to one
\* context, and any beyond the first is a call made by the running accessor
\* of the one below it; so the main program's and the handlers' calls run one
\* after the other, each returns what it returns when the completed calls are
\* executed one by one in the order of their return, and between calls the
\* cell is the cell of that sequential execution.
C10_TotalOrder ==
    /\ \A i, j \in DOMAIN stack : stack[i].ctx = stack[j].ctx
    /\ \A i \in DOMAIN stack : i > 1 => stack[i - 1].pc \in {"func", "none_func"}
    /\ Len(stack) = 1 /\ Top.pc = "return" => Top.res = SeqResult(Top, seqValue)
    /\ stack = <<>> => value = seqValue /\ flag = 0

C10_Witness ==
    /\ Len(stack) = 1 /\ Top.pc = "return"
    /\ Top.ctx = "main" /\ Top.op = "borrow"
    /\ lastWrite.ctx = "isr" /\ lastWrite.op = "borrow_mut"
    /\ prevWrite.op = "init"

\* C11: no torn access and no lost update. From the borrow to the end of func
\* or none_func the cell holds what it held when the call was made and no
\* other context's call is in progress above it; and when a borrow_mut with
\* the increment accessor on a cell holding n is followed by one made from
\* the other context (main program and handler), the second finds n + 1 and
\* leaves n + 2.
C11_NoTornNoLost ==
    /\ \A i \in DOMAIN stack :
          stack[i].op # "init" /\ stack[i].pc \in {"match", "func", "none_func"} =>
              /\ value = stack[i].before
              /\ \A j \in DOMAIN stack : j > i => stack[j].ctx = stack[i].ctx
    /\ /\ stack # <<>> /\ Top.pc = "return"
       /\ Top.op = "borrow_mut" /\ Top.func = "incr"
       /\ lastWrite.op = "borrow_mut" /\ lastWrite.func = "incr"
       /\ lastWrite.ctx # Top.ctx
       => Top.before = Some(lastWrite.v + 1) /\ value = Some(lastWrite.v + 2)

C11_Witness ==
    /\ stack # <<>> /\ Top.pc = "return"
    /\ Top.op = "borrow_mut" /\ Top.func = "incr" /\ Top.ctx = "isr"
    /\ lastWrite.op = "borrow_mut" /\ lastWrite.func = "incr" /\ lastWrite.ctx = "main"
    /\ lastWrite.v = 0
    /\ value = Some(2)

\* C12: re-entry is deadlock-free. A call made by a running func or none_func
\* on the same cell never waits: as long as the program has not panicked, the
\* call being executed, nested or not, has a step to take (the refused borrow
\* panics at once instead of waiting for the outer call's guard).
C12_NeverWaits ==
    Running => ENABLED <<StepTop>>_vars

C12_Witness ==
    /\ Running
    /\ Len(stack) = 2
    /\ Top.pc = "acquire" /\ Top.op = "borrow_mut"
    /\ stack[1].op = "borrow" /\ stack[1].pc = "func"
    /\ ~can_borrow(RefKind(Top.op), flag)

\* A caller-supplied function has not returned: none_func panicked, or a call
\* that func or none_func made on the cell was refused and panicked.
FuncDidNotReturn ==
    \/ aborted = "caller"
    \/ aborted = "cell" /\ Len(stack) >= 2

\* C13: every call eventually returns. Whenever calls are in progress, in the
\* main program or in a handler, they all return, unless a caller-supplied
\* func or none_func does not return.
C13_EveryCallReturns ==
    (stack # <<>>) ~> (stack = <<>> \/ FuncDidNotReturn)

C13_Witness ==
    /\ Idle
    /\ ie
    /\ prevWrite.op = "init"
    /\ lastWrite.ctx = "isr"
    /\ value # None

\* C14: init-before-enable. When the main program enables interrupts only
\* after an init has returned, no borrow or borrow_mut made in a handler takes
\* the None arm: the handler's none_func is never invoked, and a none_func
\* that panics panics in the main program only.
C14_HandlerFindsValue ==
    /\ \A i \in DOMAIN stack :
          stack[i].ctx = "isr" /\ stack[i].op # "init" =>
              /\ stack[i].nnone = 0
              /\ stack[i].pc # "none_func"
              /\ stack[i].pc \in {"func", "return", "done"} => stack[i].nfunc = 1
    /\ aborted = "caller" => Top.ctx = "main"

C14_Witness ==
    /\ TopDone
    /\ Top.ctx = "isr" /\ Top.op = "borrow_mut"
    /\ Top.func = "incr" /\ Top.none_func = "panic"
    /\ Top.nfunc = 1

\* What borrow_mut returns and leaves, as func and the selection rule define it.
BorrowMutUniform ==
    TopDone /\ Top.op = "borrow_mut" =>
        IF Top.before # None
          THEN /\ Top.nfunc = 1
               /\ Top.res = FuncResult(Top.func, Top.before[1])
               /\ value = Some(FuncStore(Top.func, Top.before[1]))
          ELSE /\ Top.nfunc = 0
               /\ Top.res = NoneResult(Top.none_func)
               /\ value = None

\* The borrow a call would take if borrow_mut with the non-mutating accessor
\* were a borrow.
AsBorrow(f) ==
    IF f.op = "borrow_mut" /\ f.func = "identity" THEN "borrow" ELSE RefKind(f.op)

\* C15 as stated: borrow_mut returns func applied to the value held at the
\* call and stores what func left, and with the non-mutating accessor it is
\* observationally identical to borrow: a panic of the cell is one that
\* remains when every borrow_mut with the identity accessor is a borrow.
C15_SameAsBorrow ==
    /\ BorrowMutUniform
    /\ aborted = "cell" =>
          \/ AsBorrow(Top) = "borrow_mut"
          \/ \E i \in 1..(Len(stack) - 1) : AsBorrow(stack[i]) = "borrow_mut"

\* C15 as amended: borrow_mut returns func applied to the value held at the
\* call and stores what func left; a borrow_mut with the identity accessor
\* that is not nested in another call is granted its borrow, returns what
\* borrow returns on that cell and leaves the cell as it was.
C15_SameAsBorrowTopLevel ==
    /\ BorrowMutUniform
    /\ Len(stack) = 1 /\ Top.op = "borrow_mut" /\ Top.func = "identity" =>
          /\ Top.pc = "acquire" => can_borrow("borrow_mut", flag)
          /\ Top.pc = "done" =>
                /\ Top.res = SeqResult([Top EXCEPT !.op = "borrow"], Top.before)
                /\ value = Top.before

C15_Witness ==
    /\ TopDone /\ Len(stack) = 1
    /\ Top.op = "borrow_mut" /\ Top.func = "identity"
    /\ Top.before = Some(1)
    /\ Top.res = Ret(1)
    /\ lastWrite.op = "borrow_mut" /\ lastWrite.func = "identity"

\* The call holds its Ref / RefMut guard.
Holding(f) == f.pc \in {"match", "write", "func", "none_func", "return"}

\* C16: the borrow state is released when each operation returns. The borrow
\* flag counts exactly the guards of the calls in progress (-1 for an
\* exclusive one), so with no call in progress the cell is unborrowed and a
\* call made then is granted its borrow, whatever calls came before.
C16_BorrowReleased ==
    /\ flag = IF \E i \in DOMAIN stack :
                    Holding(stack[i]) /\ RefKind(stack[i].op) = "borrow_mut"
                THEN 0 - 1
                ELSE Cardinality({i \in DOMAIN stack :
                        Holding(stack[i]) /\ RefKind(stack[i].op) = "borrow"})
    /\ stack = <<>> => flag = 0
    /\ Len(stack) = 1 /\ Top.pc = "acquire" =>
          flag = 0 /\ can_borrow(RefKind(Top.op), flag)

C16_Witness ==
    /\ Len(stack) = 1 /\ Top.pc = "acquire" /\ Top.op = "borrow_mut"
    /\ flag = 0
    /\ lastWrite.op = "borrow_mut" /\ prevWrite.op = "init"
    /\ aborted = "no"

\* C17: while func or none_func of an outer call runs, a call it makes on the
\* cell cannot change the stored value. A nested init or borrow_mut, and any
\* call nested in borrow_mut or init's kind of borrow, stays at its borrow,
\* which is refused; a borrow nested in a borrow is granted and sees and
\* returns what the outer call saw.
C17_NestedCannotWrite ==
    \A i \in 1..(Len(stack) - 1) :
        LET outer == stack[i]
            nested == stack[i + 1]
        IN  outer.pc \in {"func", "none_func"} =>
              /\ value = outer.before
              /\ RefKind(nested.op) = "borrow_mut" \/ RefKind(outer.op) = "borrow_mut" =>
                    /\ nested.pc = "acquire"
                    /\ i + 1 = Len(stack)
                    /\ ~can_borrow(RefKind(nested.op), flag)
              /\ RefKind(nested.op) = "borrow" /\ RefKind(outer.op) = "borrow" =>
                    /\ nested.before = outer.before
                    /\ nested.pc = "acquire" /\ i + 1 = Len(stack) =>
                          can_borrow("borrow", flag)
                    /\ nested.pc \in {"return", "done"} =>
                          nested.res = SeqResult(nested, outer.before)

C17_Witness ==
    /\ aborted = "cell"
    /\ Len(stack) = 2
    /\ stack[1].op = "borrow" /\ stack[1].pc = "func"
    /\ Top.op = "init" /\ Top.arg = 2
    /\ value = Some(1)

====
